---- MODULE Spec2Model ----
(***************************************************************************)
(* Streamable-HTTP transport of mcp-go (server/streamable_http.go).       *)
(*                                                                         *)
(* Spec models one POST request served by handlePost: the main handler     *)
(* goroutine, the notification reader goroutine it starts, the engine      *)
(* (MCPServer.HandleMessage and the tool handlers it runs) as the          *)
(* environment that enqueues notifications, sets the upgrade flag and      *)
(* returns, and the client as the environment that may cancel the request  *)
(* context.  LiveSpec adds the scheduling of the reader.                   *)
(*                                                                         *)
(* ListenSpec models one GET request served by handleGet: the main loop,   *)
(* the forwarder and the pinger; BackpressureSpec is the same listener     *)
(* over a run long enough to fill writeChan.  SessionSpec adds DELETE      *)
(* requests to a listener with a heartbeat.  DeleteSpec models             *)
(* handleDelete with the sessions that write to the per-session stores.    *)
(***************************************************************************)
EXTENDS Integers, Sequences, FiniteSets, TLC

\* ------------------------------------------------------------------ bounds

\* Notifications a handler enqueues during one POST.
MaxNotifs == 2

\* Notifications the engine sends to the listening session in one run.
MaxListenNotifs == 1

\* Capacity of session.notificationChannel (make(chan ..., 100)).
NotificationChannelCap == 100

\* ------------------------------------------------------------- HTTP status

StatusOK == 200
StatusAccepted == 202
StatusBadRequest == 400
StatusNotFound == 404

\* mcp.PARSE_ERROR
PARSE_ERROR == -32700

\* -------------------------------------------------------- strings and IDs

idPrefix == "mcp-session-"

HexChars ==
    {"0","1","2","3","4","5","6","7","8","9",
     "a","b","c","d","e","f","A","B","C","D","E","F"}

\* strings.HasPrefix
HasPrefix(s, p) == Len(s) >= Len(p) /\ SubSeq(s, 1, Len(p)) = p

CharAt(s, i) == SubSeq(s, i, i)

AllHex(s) == \A i \in 1..Len(s) : CharAt(s, i) \in HexChars

\* The canonical 36-character form xxxxxxxx-xxxx-xxxx-xxxx-xxxxxxxxxxxx.
IsCanonicalUUID(s) ==
    /\ Len(s) = 36
    /\ \A i \in 1..36 :
         IF i \in {9, 14, 19, 24}
           THEN CharAt(s, i) = "-"
           ELSE CharAt(s, i) \in HexChars

\* uuid.Parse(s) succeeds: the canonical form, the same with the urn:uuid:
\* prefix or inside braces, or 32 hex digits.
UuidParseOk(s) ==
    CASE Len(s) = 36 -> IsCanonicalUUID(s)
      [] Len(s) = 45 -> /\ SubSeq(s, 1, 9) \in {"urn:uuid:", "URN:UUID:"}
                        /\ IsCanonicalUUID(SubSeq(s, 10, 45))
      [] Len(s) = 38 -> /\ CharAt(s, 1) = "{"
                        /\ CharAt(s, 38) = "}"
                        /\ IsCanonicalUUID(SubSeq(s, 2, 37))
      [] Len(s) = 32 -> AllHex(s)
      [] OTHER -> FALSE

\* The UUIDs uuid.New() may return (two of them stand for the random draw).
U1 == "123e4567-e89b-42d3-a456-426614174000"
U2 == "9b2f6c1e-0d4a-4c7b-8f3e-5a6b7c8d9e0f"
FreshUuids == {U1, U2}

\* Values the client may send in the Mcp-Session-Id header ("" is what
\* Header.Get returns when the header is absent).
HeaderIds ==
    { "",
      idPrefix \o U1,
      U1,
      idPrefix \o "zz",
      idPrefix,
      idPrefix \o "123e4567ze89b-42d3-a456-426614174000" }

\* A result of SessionIdManager.Validate.
VRes(t, e) == [terminated |-> t, err |-> e]

\* InsecureStatefulSessionIdManager.Validate, mutated: the UUID syntax of the
\* suffix is not checked.
InsecureValidate_PrefixOnly(id) ==
    IF ~HasPrefix(id, idPrefix) THEN VRes(FALSE, TRUE) ELSE VRes(FALSE, FALSE)

\* InsecureStatefulSessionIdManager.Validate, mutated: an ID of the right
\* shape is reported as terminated.
InsecureValidate_Terminated(id) ==
    IF ~HasPrefix(id, idPrefix)
      THEN VRes(FALSE, TRUE)
      ELSE IF ~UuidParseOk(SubSeq(id, Len(idPrefix) + 1, Len(id)))
             THEN VRes(FALSE, TRUE)
             ELSE VRes(TRUE, FALSE)

\* InsecureStatefulSessionIdManager.Validate
InsecureValidate(id) ==
    IF ~HasPrefix(id, idPrefix)
      THEN VRes(FALSE, TRUE)
      ELSE IF ~UuidParseOk(SubSeq(id, Len(idPrefix) + 1, Len(id)))
             THEN VRes(FALSE, TRUE)
             ELSE VRes(FALSE, FALSE)

\* StatelessSessionIdManager.Validate
StatelessValidate(id) == VRes(FALSE, FALSE)

\* What a custom SessionIdManager may answer.
CustomValidateResults == { VRes(t, e) : t \in BOOLEAN, e \in BOOLEAN }
CustomGeneratedIds == {"", "custom-session-1"}

\* s.sessionIdManager.Validate(sessionID): the set of possible results.
Validate(p, id) ==
    CASE p = "stateless" -> { StatelessValidate(id) }
      [] p = "insecure"  -> { InsecureValidate(id) }
      [] OTHER           -> CustomValidateResults

\* s.sessionIdManager.Generate(): the set of possible results.
Generate(p) ==
    CASE p = "stateless" -> { "" }
      [] p = "insecure"  -> { idPrefix \o u : u \in FreshUuids }
      [] OTHER           -> CustomGeneratedIds

Policies == {"stateless", "insecure", "custom"}

\* -------------------------------------------------- http.ResponseWriter

\* hdr is the header map the handler edits, sent the headers as they went
\* out with the first WriteHeader, status the status of that first call,
\* nWriteHeader the number of WriteHeader calls, body the frames written,
\* flushed how many of them a Flush has pushed to the client.
NoHeaders == [ct |-> "", sid |-> ""]

NewResponseWriter ==
    [hdr |-> NoHeaders, wroteHeader |-> FALSE, status |-> 0, sent |-> NoHeaders,
     nWriteHeader |-> 0, body |-> <<>>, flushed |-> 0]

\* w.Header().Set(k, v)
HeaderSet(rw, k, v) == [rw EXCEPT !.hdr = [@ EXCEPT ![k] = v]]

\* w.WriteHeader(code): only the first call reaches the client.
WriteHeader(rw, code) ==
    IF rw.wroteHeader
      THEN [rw EXCEPT !.nWriteHeader = @ + 1]
      ELSE [rw EXCEPT !.nWriteHeader = @ + 1, !.wroteHeader = TRUE,
                      !.status = code, !.sent = rw.hdr]

\* w.Write(frame): a write before any WriteHeader sends status 200 first.
Write(rw, frame) ==
    LET r1 == IF rw.wroteHeader
                THEN rw
                ELSE [rw EXCEPT !.wroteHeader = TRUE, !.status = StatusOK,
                                !.sent = rw.hdr]
    IN  [r1 EXCEPT !.body = Append(@, frame)]

\* flusher.Flush()
Flush(rw) ==
    LET r1 == IF rw.wroteHeader
                THEN rw
                ELSE [rw EXCEPT !.wroteHeader = TRUE, !.status = StatusOK,
                                !.sent = rw.hdr]
    IN  [r1 EXCEPT !.flushed = Len(rw.body)]

\* Frames of the body.
Notification(n) == [msg |-> "notification", n |-> n]
Response == [msg |-> "response", n |-> 0]
SSEFrame(data) == [kind |-> "sse", msg |-> data.msg, n |-> data.n]
JSONFrame(data) == [kind |-> "json", msg |-> data.msg, n |-> data.n]
TextFrame(text) == [kind |-> "text", msg |-> text, n |-> 0]

\* http.Error(w, msg, code)
HttpError(rw, text, code) ==
    Write(WriteHeader(HeaderSet(rw, "ct", "text/plain; charset=utf-8"), code),
          TextFrame(text))

\* writeSSEEvent(w, data): "event: message\ndata: <json>\n\n", or an error
\* (marshal or write failure) with nothing written.
writeSSEEvent(rw, data, ok) == IF ok THEN Write(rw, SSEFrame(data)) ELSE rw

\* s.writeJSONRPCError(w, nil, code, message)
writeJSONRPCError(rw, code) ==
    Write(WriteHeader(HeaderSet(rw, "ct", "application/json"), StatusBadRequest),
          JSONFrame([msg |-> "error", n |-> code]))

\* The three event-stream headers followed by WriteHeader(200).
WriteEventStreamHeaders(rw) ==
    WriteHeader(HeaderSet(rw, "ct", "text/event-stream"), StatusOK)

\* ------------------------------------------------------------------ state

VARIABLES
    policy,               \* s.sessionIdManager
    canFlush,             \* w implements http.Flusher
    mpc,                  \* position of handlePost
    rpc,                  \* position of the notification reader goroutine
    isInitializeRequest,
    headerID,             \* r.Header.Get(headerKeySessionID) as read
    validated,            \* result of Validate, once called
    sessionID,
    sessionCreated,       \* newStreamableHttpSession was called
    notificationChannel,  \* session.notificationChannel
    upgradeToSSE,         \* session.upgradeToSSE
    mu,                   \* owner of the per-request mutex
    upgradedHeader,
    done,                 \* the done channel is closed
    ctxDone,              \* the request context is cancelled
    response,             \* what HandleMessage returned
    nt,                   \* the notification the reader holds
    w,                    \* the response writer
    engineCalls,          \* calls of s.server.HandleMessage
    enqueued,             \* notifications the handler has enqueued
    writeFailed,          \* some writeSSEEvent / Encode returned an error
    sawCancel,            \* handlePost returned at the ctx.Err() check
    cancelQuiet           \* the context was cancelled while HandleMessage was
                          \* running and the reader waited in its select

\* The state of one GET listener (handleGet), of the DELETE handler and of
\* the per-session stores of the server.
VARIABLES
    listenHeartbeatInterval, \* s.listenHeartbeatInterval
    maxTicks,             \* ticks of the heartbeat ticker within the run
    maxListenNotifs,      \* notifications sent to the listener within the run
    gpc,                  \* position of handleGet
    fpc,                  \* position of the forwarder goroutine
    ppc,                  \* position of the pinger goroutine
    listenSessionID,      \* sessionID of handleGet
    registration,         \* RegisterSession: "none", "refused", "registered",
                          \* or "unregistered" once UnregisterSession ran
    unregistered,         \* session IDs passed to UnregisterSession, in order
    listenW,              \* the response writer of the GET
    listenDone,           \* done of handleGet: "none", "open" or "closed"
    listenCtxDone,        \* r.Context() of the GET is cancelled
    listenChannel,        \* session.notificationChannel of the listener
    listenEnqueued,       \* notifications the engine sent to the listener
    writeChan,            \* writeChan of handleGet
    listenNt,             \* nt held by the forwarder
    counter,              \* the *atomic.Int64 nextRequestID has loaded
    message,              \* message held by the pinger
    ticks,                \* ticks the pinger has received
    data,                 \* data held by the main loop
    counters,             \* the atomic.Int64 values allocated so far
    sessionRequestIDs,    \* s.sessionRequestIDs: session ID -> counter
    purged,               \* session IDs s.sessionRequestIDs.Delete was called with
    sessionTools,         \* s.sessionTools: session IDs with an entry
    sessionLogLevels,     \* s.sessionLogLevels: session ID -> level
    dpc,                  \* position of handleDelete
    deleteID,             \* sessionID of handleDelete
    deleteW,              \* the response writer of the DELETE
    deletes,              \* DELETE requests started
    terminateResult,      \* what Terminate returned to handleDelete
    storeWrites,          \* store writes by sessions so far
    interfered            \* an entry was stored under deleteID since the
                          \* DELETE began

\* The server object outside its request handlers.
VARIABLES
    opts,                 \* options NewStreamableHTTPServer has yet to apply
    applied,              \* options it has applied, in order
    endpointPath,         \* s.endpointPath
    callers,              \* the nextRequestID calls in progress or returned
    httpServer,           \* s.httpServer: nil, or an http.Server with its Addr
    smu,                  \* s.mu: free, or held by a Start or a Shutdown call
    starts,               \* the Start calls: position and addr of each
    shutdownPc            \* position of the Shutdown call

lifecycleVars == <<httpServer, smu, starts, shutdownPc>>
serverVars == <<opts, applied, endpointPath, callers, lifecycleVars>>

configVars == <<listenHeartbeatInterval, maxTicks, maxListenNotifs, serverVars>>
getVars ==
    <<gpc, listenSessionID, registration, unregistered, listenW, listenDone,
      data>>
envVars == <<listenCtxDone, listenChannel, listenEnqueued>>
forwarderVars == <<fpc, listenNt>>
pingerVars == <<ppc, counter, message, ticks>>
counterVars == <<counters, sessionRequestIDs, purged>>
storeVars == <<sessionTools, sessionLogLevels, storeWrites>>
deleteVars == <<dpc, deleteID, deleteW, deletes, terminateResult>>

listenVars ==
    <<configVars, getVars, envVars, forwarderVars, pingerVars, writeChan,
      counterVars, storeVars, deleteVars, interfered>>

postVars ==
    <<mpc, rpc, isInitializeRequest, headerID, validated, sessionID,
      sessionCreated, notificationChannel, upgradeToSSE, mu, upgradedHeader,
      done, ctxDone, response, nt, w, engineCalls, enqueued, writeFailed,
      sawCancel, cancelQuiet>>

vars ==
    <<policy, canFlush, mpc, rpc, isInitializeRequest, headerID, validated,
      sessionID, sessionCreated, notificationChannel, upgradeToSSE, mu,
      upgradedHeader, done, ctxDone, response, nt, w, engineCalls, enqueued,
      writeFailed, sawCancel, cancelQuiet, listenVars>>

NotValidated == [called |-> FALSE, terminated |-> FALSE, err |-> FALSE]
NoNotification == Notification(0)

\* The session IDs the stores are keyed with in the model.
ListenHeaderIds == {"", idPrefix \o U1}
StoreIds == ListenHeaderIds \cup {U1}

\* mcp.LoggingLevel values, and the absence of a map entry.
LoggingLevelError == "error"
LoggingLevelDebug == "debug"
NoEntry == "absent"

NoData == [msg |-> "nil", n |-> 0]

\* handlePost has not begun.
PostStart ==
    /\ mpc = "m_contentType"
    /\ rpc = "r_none"
    /\ isInitializeRequest = FALSE
    /\ headerID = ""
    /\ validated = NotValidated
    /\ sessionID = ""
    /\ sessionCreated = FALSE
    /\ notificationChannel = <<>>
    /\ upgradeToSSE = FALSE
    /\ mu = "free"
    /\ upgradedHeader = FALSE
    /\ done = FALSE
    /\ ctxDone = FALSE
    /\ response = "pending"
    /\ nt = NoNotification
    /\ w = NewResponseWriter
    /\ engineCalls = 0
    /\ enqueued = 0
    /\ writeFailed = FALSE
    /\ sawCancel = FALSE
    /\ cancelQuiet = FALSE

\* NewStreamableHTTPServer has run; no GET or DELETE has begun.
ListenStart ==
    /\ gpc = "g_start"
    /\ fpc = "f_none"
    /\ ppc = "p_none"
    /\ listenSessionID = ""
    /\ registration = "none"
    /\ unregistered = <<>>
    /\ listenW = NewResponseWriter
    /\ listenDone = "none"
    /\ listenCtxDone = FALSE
    /\ listenChannel = <<>>
    /\ listenEnqueued = 0
    /\ writeChan = <<>>
    /\ listenNt = NoData
    /\ counter = 0
    /\ message = NoData
    /\ ticks = 0
    /\ data = NoData
    /\ counters = <<>>
    /\ sessionRequestIDs = [id \in StoreIds |-> 0]
    /\ purged = {}
    /\ sessionTools = {}
    /\ sessionLogLevels = [id \in StoreIds |-> NoEntry]
    /\ dpc = "d_idle"
    /\ deleteID = ""
    /\ deleteW = NewResponseWriter
    /\ deletes = 0
    /\ terminateResult = [called |-> FALSE, notAllowed |-> FALSE, err |-> FALSE]
    /\ storeWrites = 0
    /\ interfered = FALSE

\* The default endpoint path (line 141).
DefaultEndpointPath == "/mcp"

\* NewStreamableHTTPServer has returned.
\* nextRequestID calls of one run, each by a goroutine of its own.
MaxCallers == 3
Callers == 1..MaxCallers
NotCalled == [pc |-> "idle", id |-> "", counter |-> 0, value |-> 0]

\* Start calls within one run.
MaxStarts == 2
StartCalls == 1..MaxStarts

\* s.httpServer == nil, and s.mu unlocked.
NoServer == [set |-> FALSE, addr |-> ""]
Unlocked == [kind |-> "free", by |-> 0]
NotStarted == [pc |-> "idle", addr |-> ""]

\* No Start or Shutdown call has begun.
LifecycleStart ==
    /\ smu = Unlocked
    /\ starts = [c \in StartCalls |-> NotStarted]
    /\ shutdownPc = "idle"

ServerStart ==
    /\ httpServer = NoServer
    /\ LifecycleStart
    /\ callers = [c \in Callers |-> NotCalled]
    /\ opts = <<>>
    /\ applied = <<>>
    /\ endpointPath = DefaultEndpointPath

Init ==
    /\ policy \in Policies
    /\ canFlush \in BOOLEAN
    /\ PostStart
    /\ ListenStart
    /\ listenHeartbeatInterval = 0
    /\ maxTicks = 0
    /\ maxListenNotifs = MaxListenNotifs
    /\ ServerStart

\* ------------------------------------------------------------ request input

\* Content-Type headers a client may send.
ContentTypes ==
    {"application/json", "application/json; charset=utf-8", "text/plain", ""}

\* Index of the first ";" of s, or Len(s) + 1.
RECURSIVE SemiAt(_, _)
SemiAt(s, i) ==
    IF i > Len(s) THEN i
    ELSE IF CharAt(s, i) = ";" THEN i ELSE SemiAt(s, i + 1)

\* mime.ParseMediaType(contentType): the media type before the parameters.
ParseMediaType(ct) ==
    LET mt == SubSeq(ct, 1, SemiAt(ct, 1) - 1)
    IN  [err |-> mt = "", mediaType |-> mt]

\* What json.Unmarshal(rawData, &baseMessage) finds in the body.
Bodies ==
    { [valid |-> FALSE, method |-> ""],
      [valid |-> TRUE, method |-> "initialize"],
      [valid |-> TRUE, method |-> "tools/call"],
      [valid |-> TRUE, method |-> "notifications/cancelled"] }

MethodInitialize == "initialize"

\* ------------------------------------------------- handlePost, main handler

\* Lines 217-223: the Content-Type check.
HandlePost_ContentType ==
    /\ mpc = "m_contentType"
    /\ \E ct \in ContentTypes :
         LET p == ParseMediaType(ct) IN
         IF p.err \/ p.mediaType # "application/json"
           THEN /\ w' = HttpError(w, "Invalid content type: must be 'application/json'",
                                  StatusBadRequest)
                /\ mpc' = "m_done"
           ELSE /\ w' = w
                /\ mpc' = "m_readBody"
    /\ UNCHANGED <<policy, canFlush, rpc, isInitializeRequest, headerID, validated,
                   sessionID, sessionCreated, notificationChannel, upgradeToSSE, mu,
                   upgradedHeader, done, ctxDone, response, nt, engineCalls,
                   enqueued, writeFailed, sawCancel>>
    /\ UNCHANGED <<cancelQuiet, listenVars>>

\* Lines 226-230: io.ReadAll(r.Body).
HandlePost_ReadBody ==
    /\ mpc = "m_readBody"
    /\ \E ok \in BOOLEAN :
         IF ~ok
           THEN /\ w' = writeJSONRPCError(w, PARSE_ERROR)
                /\ mpc' = "m_done"
           ELSE /\ w' = w
                /\ mpc' = "m_unmarshal"
    /\ UNCHANGED <<policy, canFlush, rpc, isInitializeRequest, headerID, validated,
                   sessionID, sessionCreated, notificationChannel, upgradeToSSE, mu,
                   upgradedHeader, done, ctxDone, response, nt, engineCalls,
                   enqueued, writeFailed, sawCancel>>
    /\ UNCHANGED <<cancelQuiet, listenVars>>

\* Lines 231-238: the shallow parse and the classification.
HandlePost_Unmarshal ==
    /\ mpc = "m_unmarshal"
    /\ \E b \in Bodies :
         IF ~b.valid
           THEN /\ w' = writeJSONRPCError(w, PARSE_ERROR)
                /\ mpc' = "m_done"
                /\ isInitializeRequest' = isInitializeRequest
           ELSE /\ w' = w
                /\ mpc' = "m_session"
                /\ isInitializeRequest' = (b.method = MethodInitialize)
    /\ UNCHANGED <<policy, canFlush, rpc, headerID, validated,
                   sessionID, sessionCreated, notificationChannel, upgradeToSSE, mu,
                   upgradedHeader, done, ctxDone, response, nt, engineCalls,
                   enqueued, writeFailed, sawCancel>>
    /\ UNCHANGED <<cancelQuiet, listenVars>>

\* Lines 249-251: an initialize request gets a generated session ID.
HandlePost_Generate ==
    /\ mpc = "m_session"
    /\ isInitializeRequest
    /\ \E id \in Generate(policy) : sessionID' = id
    /\ mpc' = "m_newSession"
    /\ UNCHANGED <<policy, canFlush, rpc, isInitializeRequest, headerID, validated,
                   sessionCreated, notificationChannel, upgradeToSSE, mu,
                   upgradedHeader, done, ctxDone, response, nt, w, engineCalls,
                   enqueued, writeFailed, sawCancel>>
    /\ UNCHANGED <<cancelQuiet, listenVars>>

\* Lines 252-265: any other request carries its session ID, which the policy
\* validates.
HandlePost_Validate ==
    /\ mpc = "m_session"
    /\ ~isInitializeRequest
    /\ \E h \in HeaderIds : \E v \in Validate(policy, h) :
         /\ headerID' = h
         /\ sessionID' = h
         /\ validated' = [called |-> TRUE, terminated |-> v.terminated, err |-> v.err]
         /\ IF v.err
              THEN /\ w' = HttpError(w, "Invalid session ID", StatusBadRequest)
                   /\ mpc' = "m_done"
              ELSE IF v.terminated
                     THEN /\ w' = HttpError(w, "Session terminated", StatusNotFound)
                          /\ mpc' = "m_done"
                     ELSE /\ w' = w
                          /\ mpc' = "m_newSession"
    /\ UNCHANGED <<policy, canFlush, rpc, isInitializeRequest,
                   sessionCreated, notificationChannel, upgradeToSSE, mu,
                   upgradedHeader, done, ctxDone, response, nt, engineCalls,
                   enqueued, writeFailed, sawCancel>>
    /\ UNCHANGED <<cancelQuiet, listenVars>>

\* Lines 267-321: the ephemeral session, the mutex, the done channel, and the
\* start of the notification reader.
HandlePost_StartReader ==
    /\ mpc = "m_newSession"
    /\ sessionCreated' = TRUE
    /\ notificationChannel' = <<>>
    /\ upgradeToSSE' = FALSE
    /\ mu' = "free"
    /\ upgradedHeader' = FALSE
    /\ done' = FALSE
    /\ rpc' = "r_select"
    /\ mpc' = "m_handleMessage"
    /\ UNCHANGED <<policy, canFlush, isInitializeRequest, headerID, validated,
                   sessionID, ctxDone, response, nt, w, engineCalls,
                   enqueued, writeFailed, sawCancel>>
    /\ UNCHANGED <<cancelQuiet, listenVars>>

\* Line 324: s.server.HandleMessage(ctx, rawData) is called.
HandlePost_HandleMessage ==
    /\ mpc = "m_handleMessage"
    /\ engineCalls' = engineCalls + 1
    /\ mpc' = "m_engine"
    /\ UNCHANGED <<policy, canFlush, rpc, isInitializeRequest, headerID, validated,
                   sessionID, sessionCreated, notificationChannel, upgradeToSSE, mu,
                   upgradedHeader, done, ctxDone, response, nt, w,
                   enqueued, writeFailed, sawCancel>>
    /\ UNCHANGED <<cancelQuiet, listenVars>>

\* ------------------------------------------- the engine, as the environment

\* A handler sends on session.NotificationChannel() while HandleMessage runs.
Engine_SendNotification ==
    /\ mpc = "m_engine"
    /\ enqueued < MaxNotifs
    /\ Len(notificationChannel) < NotificationChannelCap
    /\ notificationChannel' = Append(notificationChannel, Notification(enqueued + 1))
    /\ enqueued' = enqueued + 1
    /\ UNCHANGED <<policy, canFlush, mpc, rpc, isInitializeRequest, headerID,
                   validated, sessionID, sessionCreated, upgradeToSSE, mu,
                   upgradedHeader, done, ctxDone, response, nt, w, engineCalls,
                   writeFailed, sawCancel>>
    /\ UNCHANGED <<cancelQuiet, listenVars>>

\* A handler calls session.UpgradeToSSEWhenReceiveNotification().
Engine_Upgrade ==
    /\ mpc = "m_engine"
    /\ ~upgradeToSSE
    /\ upgradeToSSE' = TRUE
    /\ UNCHANGED <<policy, canFlush, mpc, rpc, isInitializeRequest, headerID,
                   validated, sessionID, sessionCreated, notificationChannel, mu,
                   upgradedHeader, done, ctxDone, response, nt, w, engineCalls,
                   enqueued, writeFailed, sawCancel>>
    /\ UNCHANGED <<cancelQuiet, listenVars>>

\* HandleMessage returns a response, or nil for a message without id
\* (lines 324-325).
Engine_Return ==
    /\ mpc = "m_engine"
    /\ \E r \in {"nil", "response"} :
         /\ response' = r
         /\ mpc' = IF r = "nil" THEN "m_write202" ELSE "m_lock"
    /\ UNCHANGED <<policy, canFlush, rpc, isInitializeRequest, headerID,
                   validated, sessionID, sessionCreated, notificationChannel,
                   upgradeToSSE, mu, upgradedHeader, done, ctxDone, nt, w,
                   engineCalls, enqueued, writeFailed, sawCancel>>
    /\ UNCHANGED <<cancelQuiet, listenVars>>

\* The client aborts, or the HTTP server ends the request: r.Context() is
\* cancelled.
CtxCancel ==
    /\ ~ctxDone
    /\ ctxDone' = TRUE
    /\ cancelQuiet' = (mpc = "m_engine" /\ rpc = "r_select")
    /\ UNCHANGED <<policy, canFlush, mpc, rpc, isInitializeRequest, headerID,
                   validated, sessionID, sessionCreated, notificationChannel,
                   upgradeToSSE, mu, upgradedHeader, done, response, nt, w,
                   engineCalls, enqueued, writeFailed, sawCancel,
                   listenVars>>

\* ------------------------------------ handlePost after the engine returned

\* Lines 325-327: the nil response; WriteHeader(202) is entered.
HandlePost_Begin202 ==
    /\ mpc = "m_write202"
    /\ mpc' = "m_in202"
    /\ UNCHANGED <<policy, canFlush, rpc, isInitializeRequest, headerID,
                   validated, sessionID, sessionCreated, notificationChannel,
                   upgradeToSSE, mu, upgradedHeader, done, ctxDone, response, nt,
                   w, engineCalls, enqueued, writeFailed, sawCancel>>
    /\ UNCHANGED <<cancelQuiet, listenVars>>

\* Lines 327-328: WriteHeader(202) completes and the handler returns.
HandlePost_End202 ==
    /\ mpc = "m_in202"
    /\ w' = WriteHeader(w, StatusAccepted)
    /\ mpc' = "m_done"
    /\ UNCHANGED <<policy, canFlush, rpc, isInitializeRequest, headerID,
                   validated, sessionID, sessionCreated, notificationChannel,
                   upgradeToSSE, mu, upgradedHeader, done, ctxDone, response, nt,
                   engineCalls, enqueued, writeFailed, sawCancel>>
    /\ UNCHANGED <<cancelQuiet, listenVars>>

\* Line 332: mu.Lock().
HandlePost_Lock ==
    /\ mpc = "m_lock"
    /\ mu = "free"
    /\ mu' = "main"
    /\ mpc' = "m_ctxErr"
    /\ UNCHANGED <<policy, canFlush, rpc, isInitializeRequest, headerID,
                   validated, sessionID, sessionCreated, notificationChannel,
                   upgradeToSSE, upgradedHeader, done, ctxDone, response, nt, w,
                   engineCalls, enqueued, writeFailed, sawCancel>>
    /\ UNCHANGED <<cancelQuiet, listenVars>>

\* Lines 333-338: with the context cancelled the handler returns; the
\* deferred close(done) and mu.Unlock() run.
HandlePost_CtxErr ==
    /\ mpc = "m_ctxErr"
    /\ IF ctxDone
         THEN /\ done' = TRUE
              /\ mu' = "free"
              /\ sawCancel' = TRUE
              /\ mpc' = "m_done"
         ELSE /\ UNCHANGED <<done, mu, sawCancel>>
              /\ mpc' = "m_final"
    /\ UNCHANGED <<policy, canFlush, rpc, isInitializeRequest, headerID,
                   validated, sessionID, sessionCreated, notificationChannel,
                   upgradeToSSE, upgradedHeader, ctxDone, response, nt, w,
                   engineCalls, enqueued, writeFailed, sawCancel>>
    /\ UNCHANGED <<cancelQuiet, listenVars>>

\* The framing choice of line 340, mutated: always the event stream.
UseSSEFraming_Always == TRUE

\* Line 340: session.upgradeToSSE.Load().
UseSSEFraming == upgradeToSSE

\* Lines 340-362: the final response, as an SSE event or as a JSON body.
\* ok is whether writeSSEEvent / Encode succeeded.
FinalWrite(rw, ok) ==
    IF UseSSEFraming
      THEN writeSSEEvent(IF ~upgradedHeader THEN WriteEventStreamHeaders(rw) ELSE rw,
                         Response, ok)
      ELSE LET r1 == HeaderSet(rw, "ct", "application/json")
               r2 == IF isInitializeRequest /\ sessionID # ""
                       THEN HeaderSet(r1, "sid", sessionID)
                       ELSE r1
               r3 == WriteHeader(r2, StatusOK)
           IN  IF ok THEN Write(r3, JSONFrame(Response)) ELSE r3

\* Lines 339-363: the final write, then the deferred close(done) and
\* mu.Unlock().
HandlePost_WriteResponse ==
    /\ mpc = "m_final"
    /\ \E ok \in BOOLEAN :
         /\ w' = FinalWrite(w, ok)
         /\ writeFailed' = (writeFailed \/ ~ok)
    /\ upgradedHeader' = (upgradedHeader \/ UseSSEFraming)
    /\ done' = TRUE
    /\ mu' = "free"
    /\ mpc' = "m_done"
    /\ UNCHANGED <<policy, canFlush, rpc, isInitializeRequest, headerID,
                   validated, sessionID, sessionCreated, notificationChannel,
                   upgradeToSSE, ctxDone, response, nt, engineCalls, enqueued,
                   sawCancel>>
    /\ UNCHANGED <<cancelQuiet, listenVars>>

\* ------------------------------------------- the notification reader

\* Line 284: a notification is received from the channel.
Reader_Receive ==
    /\ rpc = "r_select"
    /\ notificationChannel # <<>>
    /\ nt' = Head(notificationChannel)
    /\ notificationChannel' = Tail(notificationChannel)
    /\ rpc' = "r_lock"
    /\ UNCHANGED <<policy, canFlush, mpc, isInitializeRequest, headerID,
                   validated, sessionID, sessionCreated, upgradeToSSE, mu,
                   upgradedHeader, done, ctxDone, response, w, engineCalls,
                   enqueued, writeFailed, sawCancel>>
    /\ UNCHANGED <<cancelQuiet, listenVars>>

\* Lines 315-316: the done case of the select.
Reader_Done ==
    /\ rpc = "r_select"
    /\ done
    /\ rpc' = "r_exit"
    /\ UNCHANGED <<policy, canFlush, mpc, isInitializeRequest, headerID,
                   validated, sessionID, sessionCreated, notificationChannel,
                   upgradeToSSE, mu, upgradedHeader, done, ctxDone, response, nt,
                   w, engineCalls, enqueued, writeFailed, sawCancel>>
    /\ UNCHANGED <<cancelQuiet, listenVars>>

\* The case of line 317, mutated: the reader never sees the context done.
ReaderSeesCtxDone_Never == FALSE

\* Line 317: the receive from ctx.Done().
ReaderSeesCtxDone == ctxDone

\* Lines 317-318: the ctx.Done() case of the select.
Reader_CtxDone ==
    /\ rpc = "r_select"
    /\ ReaderSeesCtxDone
    /\ rpc' = "r_exit"
    /\ UNCHANGED <<policy, canFlush, mpc, isInitializeRequest, headerID,
                   validated, sessionID, sessionCreated, notificationChannel,
                   upgradeToSSE, mu, upgradedHeader, done, ctxDone, response, nt,
                   w, engineCalls, enqueued, writeFailed, sawCancel>>
    /\ UNCHANGED <<cancelQuiet, listenVars>>

\* Line 286: mu.Lock().
Reader_Lock ==
    /\ rpc = "r_lock"
    /\ mu = "free"
    /\ mu' = "reader"
    /\ rpc' = "r_checkDone"
    /\ UNCHANGED <<policy, canFlush, mpc, isInitializeRequest, headerID,
                   validated, sessionID, sessionCreated, notificationChannel,
                   upgradeToSSE, upgradedHeader, done, ctxDone, response, nt, w,
                   engineCalls, enqueued, writeFailed, sawCancel>>
    /\ UNCHANGED <<cancelQuiet, listenVars>>

\* The check of lines 289-293, mutated: the reader never sees done closed.
ReaderSeesDone_Never == FALSE

\* Lines 289-293: the non-blocking receive from done.
ReaderSeesDone == done

\* Lines 288-293: with done closed the notification is dropped and the
\* deferred mu.Unlock() runs.
Reader_CheckDone ==
    /\ rpc = "r_checkDone"
    /\ IF ReaderSeesDone
         THEN /\ mu' = "free"
              /\ rpc' = "r_select"
         ELSE /\ mu' = mu
              /\ rpc' = "r_header"
    /\ UNCHANGED <<policy, canFlush, mpc, isInitializeRequest, headerID,
                   validated, sessionID, sessionCreated, notificationChannel,
                   upgradeToSSE, upgradedHeader, done, ctxDone, response, nt, w,
                   engineCalls, enqueued, writeFailed, sawCancel>>
    /\ UNCHANGED <<cancelQuiet, listenVars>>

\* Lines 301-308: the first notification sends the event-stream headers.
Reader_Header ==
    /\ rpc = "r_header"
    /\ IF ~upgradedHeader
         THEN /\ w' = WriteEventStreamHeaders(w)
              /\ upgradedHeader' = TRUE
         ELSE UNCHANGED <<w, upgradedHeader>>
    /\ rpc' = "r_write"
    /\ UNCHANGED <<policy, canFlush, mpc, isInitializeRequest, headerID,
                   validated, sessionID, sessionCreated, notificationChannel,
                   upgradeToSSE, mu, done, ctxDone, response, nt,
                   engineCalls, enqueued, writeFailed, sawCancel>>
    /\ UNCHANGED <<cancelQuiet, listenVars>>

\* Lines 309-313: writeSSEEvent(w, nt); an error is logged.
Reader_Write ==
    /\ rpc = "r_write"
    /\ \E ok \in BOOLEAN :
         /\ w' = writeSSEEvent(w, nt, ok)
         /\ writeFailed' = (writeFailed \/ ~ok)
    /\ rpc' = "r_flush"
    /\ UNCHANGED <<policy, canFlush, mpc, isInitializeRequest, headerID,
                   validated, sessionID, sessionCreated, notificationChannel,
                   upgradeToSSE, mu, upgradedHeader, done, ctxDone, response, nt,
                   engineCalls, enqueued, sawCancel>>
    /\ UNCHANGED <<cancelQuiet, listenVars>>

\* Lines 294-299 and 287: the deferred Flush, then the deferred mu.Unlock().
Reader_Flush ==
    /\ rpc = "r_flush"
    /\ w' = IF canFlush THEN Flush(w) ELSE w
    /\ mu' = "free"
    /\ rpc' = "r_select"
    /\ UNCHANGED <<policy, canFlush, mpc, isInitializeRequest, headerID,
                   validated, sessionID, sessionCreated, notificationChannel,
                   upgradeToSSE, upgradedHeader, done, ctxDone, response, nt,
                   engineCalls, enqueued, writeFailed, sawCancel>>
    /\ UNCHANGED <<cancelQuiet, listenVars>>

\* ------------------------------------------------------------ specification

Next ==
    \/ HandlePost_ContentType
    \/ HandlePost_ReadBody
    \/ HandlePost_Unmarshal
    \/ HandlePost_Generate
    \/ HandlePost_Validate
    \/ HandlePost_StartReader
    \/ HandlePost_HandleMessage
    \/ Engine_SendNotification
    \/ Engine_Upgrade
    \/ Engine_Return
    \/ CtxCancel
    \/ HandlePost_Begin202
    \/ HandlePost_End202
    \/ HandlePost_Lock
    \/ HandlePost_CtxErr
    \/ HandlePost_WriteResponse
    \/ Reader_Receive
    \/ Reader_Done
    \/ Reader_CtxDone
    \/ Reader_Lock
    \/ Reader_CheckDone
    \/ Reader_Header
    \/ Reader_Write
    \/ Reader_Flush

Spec == Init /\ [][Next]_vars

\* The reader goroutine is scheduled (weak fairness of each of its steps),
\* and net/http cancels r.Context() once ServeHTTP has returned.
ReaderFairness ==
    /\ WF_vars(Reader_Receive)
    /\ WF_vars(Reader_Done)
    /\ WF_vars(Reader_CtxDone)
    /\ WF_vars(Reader_Lock)
    /\ WF_vars(Reader_CheckDone)
    /\ WF_vars(Reader_Header)
    /\ WF_vars(Reader_Write)
    /\ WF_vars(Reader_Flush)
    /\ WF_vars(mpc = "m_done" /\ CtxCancel)

LiveSpec == Spec /\ ReaderFairness

\* ------------------------------------------------- handleGet, main handler

\* Capacity of writeChan (make(chan any, 16)).
WriteChanCap == 16

StatusInternalServerError == 500
StatusMethodNotAllowed == 405

\* DELETE requests within one run.
MaxDeletes == 2

\* Values of s.listenHeartbeatInterval (WithHeartbeatInterval stores any
\* duration; the pinger is started for positive ones only).
HeartbeatIntervals == {-1, 0, 1}

\* uuid.New().String()
ListenUuids == {U1}

\* The JSON-RPC request the pinger builds.
Ping(id) == [msg |-> "ping", n |-> id]

\* A session with the given ID stores an entry while a DELETE for that ID is
\* being served or has returned.
Interferes(id) == dpc # "d_idle" /\ id = deleteID

\* Lines 369-387: the session ID is the header's or a fresh UUID; the
\* session is registered with the engine, which may refuse it.
HandleGet_Register ==
    /\ gpc = "g_start"
    /\ \E hid \in ListenHeaderIds, u \in ListenUuids, ok \in BOOLEAN :
         /\ listenSessionID' = IF hid = "" THEN u ELSE hid
         /\ IF ok
              THEN /\ registration' = "registered"
                   /\ listenW' = listenW
                   /\ gpc' = "g_headers"
              ELSE /\ registration' = "refused"
                   /\ listenW' = HttpError(listenW, "Session registration failed",
                                           StatusBadRequest)
                   /\ gpc' = "g_exit"
    /\ UNCHANGED <<unregistered, listenDone, data>>
    /\ UNCHANGED <<policy, canFlush, postVars, configVars, envVars,
                   forwarderVars, pingerVars, writeChan, counterVars,
                   storeVars, deleteVars, interfered>>

\* Lines 391-394: the event-stream headers and WriteHeader(200).
HandleGet_Headers ==
    /\ gpc = "g_headers"
    /\ listenW' = WriteEventStreamHeaders(listenW)
    /\ gpc' = "g_flusher"
    /\ UNCHANGED <<listenSessionID, registration, unregistered, listenDone, data>>
    /\ UNCHANGED <<policy, canFlush, postVars, configVars, envVars,
                   forwarderVars, pingerVars, writeChan, counterVars,
                   storeVars, deleteVars, interfered>>

\* Whether handleGet starts the pinger (line 423).
StartsPinger_Always == TRUE

\* Line 423: s.listenHeartbeatInterval > 0.
StartsPinger == listenHeartbeatInterval > 0

\* Lines 396-448: a writer that cannot flush gets http.Error and the handler
\* returns (the deferred UnregisterSession remains); otherwise Flush, done and
\* writeChan are made, and the forwarder and the pinger are started.
HandleGet_Flusher ==
    /\ gpc = "g_flusher"
    /\ IF ~canFlush
         THEN /\ listenW' = HttpError(listenW, "Streaming unsupported",
                                      StatusInternalServerError)
              /\ gpc' = "g_unregister"
              /\ UNCHANGED <<listenDone, fpc, ppc>>
         ELSE /\ listenW' = Flush(listenW)
              /\ listenDone' = "open"
              /\ fpc' = "f_select"
              /\ ppc' = IF StartsPinger THEN "p_select" ELSE "p_none"
              /\ gpc' = "g_loop"
    /\ UNCHANGED <<listenSessionID, registration, unregistered, data>>
    /\ UNCHANGED <<listenNt, counter, message, ticks>>
    /\ UNCHANGED <<policy, canFlush, postVars, configVars, envVars, writeChan,
                   counterVars, storeVars, deleteVars, interfered>>

\* Lines 455-459: the main loop receives from writeChan; nil data is skipped.
HandleGet_Receive ==
    /\ gpc = "g_loop"
    /\ writeChan # <<>>
    /\ data' = Head(writeChan)
    /\ writeChan' = Tail(writeChan)
    /\ gpc' = IF Head(writeChan) = NoData THEN "g_loop" ELSE "g_write"
    /\ UNCHANGED <<listenSessionID, registration, unregistered, listenW,
                   listenDone>>
    /\ UNCHANGED <<policy, canFlush, postVars, configVars, envVars,
                   forwarderVars, pingerVars, counterVars, storeVars,
                   deleteVars, interfered>>

\* The first deferred call to run when the main loop returns.
FirstDeferred_Unregister == "g_unregister"

\* Line 405: close(done), deferred last, runs first.
FirstDeferred == "g_closeDone"

\* Lines 460-463: writeSSEEvent; an error ends the handler.
HandleGet_Write ==
    /\ gpc = "g_write"
    /\ \E ok \in BOOLEAN :
         /\ listenW' = writeSSEEvent(listenW, data, ok)
         /\ gpc' = IF ok THEN "g_flush" ELSE FirstDeferred
    /\ UNCHANGED <<listenSessionID, registration, unregistered, listenDone, data>>
    /\ UNCHANGED <<policy, canFlush, postVars, configVars, envVars,
                   forwarderVars, pingerVars, writeChan, counterVars,
                   storeVars, deleteVars, interfered>>

\* Line 464: flusher.Flush().
HandleGet_Flush ==
    /\ gpc = "g_flush"
    /\ listenW' = Flush(listenW)
    /\ gpc' = "g_loop"
    /\ UNCHANGED <<listenSessionID, registration, unregistered, listenDone, data>>
    /\ UNCHANGED <<policy, canFlush, postVars, configVars, envVars,
                   forwarderVars, pingerVars, writeChan, counterVars,
                   storeVars, deleteVars, interfered>>

\* Lines 465-466: the request context is done.
HandleGet_CtxDone ==
    /\ gpc = "g_loop"
    /\ listenCtxDone
    /\ gpc' = FirstDeferred
    /\ UNCHANGED <<listenSessionID, registration, unregistered, listenW,
                   listenDone, data>>
    /\ UNCHANGED <<policy, canFlush, postVars, configVars, envVars,
                   forwarderVars, pingerVars, writeChan, counterVars,
                   storeVars, deleteVars, interfered>>

\* Line 405, deferred: close(done). It runs before the deferred
\* UnregisterSession, which was deferred earlier.
HandleGet_CloseDone ==
    /\ gpc = "g_closeDone"
    /\ listenDone' = "closed"
    /\ gpc' = "g_unregister"
    /\ UNCHANGED <<listenSessionID, registration, unregistered, listenW, data>>
    /\ UNCHANGED <<policy, canFlush, postVars, configVars, envVars,
                   forwarderVars, pingerVars, writeChan, counterVars,
                   storeVars, deleteVars, interfered>>

\* Line 388, deferred: s.server.UnregisterSession(r.Context(), sessionID).
HandleGet_Unregister ==
    /\ gpc = "g_unregister"
    /\ unregistered' = Append(unregistered, listenSessionID)
    /\ registration' = "unregistered"
    /\ gpc' = "g_exit"
    /\ UNCHANGED <<listenSessionID, listenW, listenDone, data>>
    /\ UNCHANGED <<policy, canFlush, postVars, configVars, envVars,
                   forwarderVars, pingerVars, writeChan, counterVars,
                   storeVars, deleteVars, interfered>>

\* ------------------------------------- the listener's environment

\* The client disconnects, or the HTTP server ends the request.
Listen_CtxCancel ==
    /\ gpc # "g_start"
    /\ ~listenCtxDone
    /\ listenCtxDone' = TRUE
    /\ UNCHANGED <<listenChannel, listenEnqueued>>
    /\ UNCHANGED <<policy, canFlush, postVars, configVars, getVars,
                   forwarderVars, pingerVars, writeChan, counterVars,
                   storeVars, deleteVars, interfered>>

\* The engine sends a notification to the registered session through
\* session.NotificationChannel().
Listen_SendNotification ==
    /\ registration = "registered"
    /\ listenEnqueued < maxListenNotifs
    /\ Len(listenChannel) < NotificationChannelCap
    /\ listenEnqueued' = listenEnqueued + 1
    /\ listenChannel' = Append(listenChannel, Notification(listenEnqueued + 1))
    /\ UNCHANGED listenCtxDone
    /\ UNCHANGED <<policy, canFlush, postVars, configVars, getVars,
                   forwarderVars, pingerVars, writeChan, counterVars,
                   storeVars, deleteVars, interfered>>

\* ------------------------------------------------ handleGet, forwarder

\* Line 411: nt := <-session.notificationChannel.
Forwarder_Receive ==
    /\ fpc = "f_select"
    /\ listenChannel # <<>>
    /\ listenNt' = Head(listenChannel)
    /\ listenChannel' = Tail(listenChannel)
    /\ fpc' = "f_send"
    /\ UNCHANGED <<listenCtxDone, listenEnqueued>>
    /\ UNCHANGED <<policy, canFlush, postVars, configVars, getVars,
                   pingerVars, writeChan, counterVars, storeVars, deleteVars, interfered>>

\* A send on the buffered channel writeChan.
Enqueue_Front(ch, item) == <<item>> \o ch

\* Lines 413 and 438: writeChan <- item; a channel is a FIFO queue.
Enqueue(ch, item) == Append(ch, item)

\* Line 413: writeChan <- &nt.
Forwarder_Send ==
    /\ fpc = "f_send"
    /\ Len(writeChan) < WriteChanCap
    /\ writeChan' = Enqueue(writeChan, listenNt)
    /\ fpc' = "f_select"
    /\ UNCHANGED listenNt
    /\ UNCHANGED <<policy, canFlush, postVars, configVars, getVars, envVars,
                   pingerVars, counterVars, storeVars, deleteVars, interfered>>

\* Whether a goroutine selecting on done finds it ready.
DoneIsClosed_Never == FALSE

\* Lines 414, 417, 439 and 442: case <-done is ready once done is closed.
DoneIsClosed == listenDone = "closed"

\* Lines 414-415 and 417-418: <-done in either select.
Forwarder_Done ==
    /\ fpc \in {"f_select", "f_send"}
    /\ DoneIsClosed
    /\ fpc' = "f_exit"
    /\ UNCHANGED listenNt
    /\ UNCHANGED <<policy, canFlush, postVars, configVars, getVars, envVars,
                   pingerVars, writeChan, counterVars, storeVars, deleteVars, interfered>>

\* --------------------------------------------------- handleGet, pinger

\* Lines 429 and 523: a tick arrives and nextRequestID loads the session's
\* counter, or stores a new one (sync.Map.LoadOrStore).
Pinger_Tick ==
    /\ ppc = "p_select"
    /\ ticks < maxTicks
    /\ ticks' = ticks + 1
    /\ IF sessionRequestIDs[listenSessionID] = 0
         THEN /\ counters' = Append(counters, 0)
              /\ sessionRequestIDs' =
                   [sessionRequestIDs EXCEPT ![listenSessionID] = Len(counters) + 1]
              /\ counter' = Len(counters) + 1
              /\ interfered' = (interfered \/ Interferes(listenSessionID))
         ELSE /\ counter' = sessionRequestIDs[listenSessionID]
              /\ UNCHANGED <<counters, sessionRequestIDs, interfered>>
    /\ ppc' = "p_add"
    /\ UNCHANGED <<message, purged>>
    /\ UNCHANGED <<policy, canFlush, postVars, configVars, getVars, envVars,
                   forwarderVars, writeChan, storeVars, deleteVars>>

\* Lines 524-525 and 430-436: counter.Add(1) gives the id of the message.
Pinger_Add ==
    /\ ppc = "p_add"
    /\ counters' = [counters EXCEPT ![counter] = @ + 1]
    /\ message' = Ping(counters[counter] + 1)
    /\ ppc' = "p_send"
    /\ UNCHANGED <<counter, ticks, sessionRequestIDs, purged>>
    /\ UNCHANGED <<policy, canFlush, postVars, configVars, getVars, envVars,
                   forwarderVars, writeChan, storeVars, deleteVars, interfered>>

\* Line 438: writeChan <- message.
Pinger_Send ==
    /\ ppc = "p_send"
    /\ Len(writeChan) < WriteChanCap
    /\ writeChan' = Enqueue(writeChan, message)
    /\ ppc' = "p_select"
    /\ UNCHANGED <<counter, message, ticks>>
    /\ UNCHANGED <<policy, canFlush, postVars, configVars, getVars, envVars,
                   forwarderVars, counterVars, storeVars, deleteVars, interfered>>

\* Lines 439-440 and 442-443: <-done in either select; ticker.Stop().
Pinger_Done ==
    /\ ppc \in {"p_select", "p_send"}
    /\ DoneIsClosed
    /\ ppc' = "p_exit"
    /\ UNCHANGED <<counter, message, ticks>>
    /\ UNCHANGED <<policy, canFlush, postVars, configVars, getVars, envVars,
                   forwarderVars, writeChan, counterVars, storeVars,
                   deleteVars, interfered>>

\* -------------------------------------------------------- handleDelete

TRes(n, e) == [notAllowed |-> n, err |-> e]

\* What a custom SessionIdManager may answer to Terminate.
CustomTerminateResults == { TRes(n, e) : n \in BOOLEAN, e \in BOOLEAN }

\* s.sessionIdManager.Terminate(sessionID): the set of possible results.
Terminate(p, id) ==
    CASE p = "stateless" -> { TRes(FALSE, FALSE) }
      [] p = "insecure"  -> { TRes(FALSE, FALSE) }
      [] OTHER           -> CustomTerminateResults

\* What handleDelete does with the result of Terminate.
DeleteOutcome_IgnoreNotAllowed(res) ==
    IF res.err THEN "error" ELSE "purge"

\* Lines 475-482: the error is tested first, then notAllowed.
DeleteOutcome(res) ==
    IF res.err THEN "error"
    ELSE IF res.notAllowed THEN "notAllowed"
    ELSE "purge"

\* s.sessionRequestIDs.Delete(sessionID)
DeleteCounter_Skipped(ids, id) == ids

DeleteCounter(ids, id) == [ids EXCEPT ![id] = 0]

\* sessionLogLevelsStore.get
GetLogLevel(id) ==
    IF sessionLogLevels[id] = NoEntry THEN LoggingLevelError
    ELSE sessionLogLevels[id]

\* Lines 473-482: a DELETE arrives; Terminate is asked, and an error or a
\* refusal is answered with http.Error.
HandleDelete_Terminate ==
    /\ dpc \in {"d_idle", "d_done"}
    /\ deletes < MaxDeletes
    /\ deletes' = deletes + 1
    /\ interfered' = FALSE
    /\ \E id \in StoreIds : \E res \in Terminate(policy, id) :
         /\ deleteID' = id
         /\ terminateResult' = [called |-> TRUE, notAllowed |-> res.notAllowed,
                                err |-> res.err]
         /\ CASE DeleteOutcome(res) = "error" ->
                   /\ deleteW' = HttpError(NewResponseWriter,
                                           "Session termination failed",
                                           StatusInternalServerError)
                   /\ dpc' = "d_done"
              [] DeleteOutcome(res) = "notAllowed" ->
                   /\ deleteW' = HttpError(NewResponseWriter,
                                           "Session termination not allowed",
                                           StatusMethodNotAllowed)
                   /\ dpc' = "d_done"
              [] OTHER ->
                   /\ deleteW' = NewResponseWriter
                   /\ dpc' = "d_tools"
    /\ UNCHANGED <<policy, canFlush, postVars, configVars, getVars, envVars,
                   forwarderVars, pingerVars, writeChan, counterVars,
                   storeVars>>

DeleteTools_All(tools, id) == {}

\* Lines 585-589: sessionToolsStore.delete removes the entry of one key.
DeleteTools(tools, id) == tools \ {id}

\* Line 485: s.sessionTools.delete(sessionID).
HandleDelete_Tools ==
    /\ dpc = "d_tools"
    /\ sessionTools' = DeleteTools(sessionTools, deleteID)
    /\ dpc' = "d_logLevels"
    /\ UNCHANGED <<sessionLogLevels, storeWrites>>
    /\ UNCHANGED <<deleteID, deleteW, deletes, terminateResult, interfered>>
    /\ UNCHANGED <<policy, canFlush, postVars, configVars, getVars, envVars,
                   forwarderVars, pingerVars, writeChan, counterVars>>

\* Line 486: s.sessionLogLevels.delete(sessionID).
HandleDelete_LogLevels ==
    /\ dpc = "d_logLevels"
    /\ sessionLogLevels' = [sessionLogLevels EXCEPT ![deleteID] = NoEntry]
    /\ dpc' = "d_requestIDs"
    /\ UNCHANGED <<sessionTools, storeWrites>>
    /\ UNCHANGED <<deleteID, deleteW, deletes, terminateResult, interfered>>
    /\ UNCHANGED <<policy, canFlush, postVars, configVars, getVars, envVars,
                   forwarderVars, pingerVars, writeChan, counterVars>>

\* Line 488: s.sessionRequestIDs.Delete(sessionID).
HandleDelete_RequestIDs ==
    /\ dpc = "d_requestIDs"
    /\ sessionRequestIDs' = DeleteCounter(sessionRequestIDs, deleteID)
    /\ purged' = purged \cup {deleteID}
    /\ dpc' = "d_writeHeader"
    /\ UNCHANGED counters
    /\ UNCHANGED <<deleteID, deleteW, deletes, terminateResult, interfered>>
    /\ UNCHANGED <<policy, canFlush, postVars, configVars, getVars, envVars,
                   forwarderVars, pingerVars, writeChan, storeVars>>

\* Line 490: w.WriteHeader(http.StatusOK), and the handler returns.
HandleDelete_WriteHeader ==
    /\ dpc = "d_writeHeader"
    /\ deleteW' = WriteHeader(deleteW, StatusOK)
    /\ dpc' = "d_done"
    /\ UNCHANGED <<deleteID, deletes, terminateResult, interfered>>
    /\ UNCHANGED <<policy, canFlush, postVars, configVars, getVars, envVars,
                   forwarderVars, pingerVars, writeChan, counterVars,
                   storeVars>>

\* ------------------------------------------ writers of the session stores

\* Store writes by sessions within one run.
MaxStoreWrites == 2

\* Lines 636-638: session.SetLogLevel(level), by any session of the engine.
Session_SetLogLevel ==
    /\ storeWrites < MaxStoreWrites
    /\ storeWrites' = storeWrites + 1
    /\ \E id \in StoreIds, level \in {LoggingLevelDebug, LoggingLevelError} :
         /\ sessionLogLevels' = [sessionLogLevels EXCEPT ![id] = level]
         /\ interfered' = (interfered \/ Interferes(id))
    /\ UNCHANGED sessionTools
    /\ UNCHANGED <<policy, canFlush, postVars, configVars, getVars, envVars,
                   forwarderVars, pingerVars, writeChan, counterVars,
                   deleteVars>>

\* Lines 650-652: session.SetSessionTools(tools), by any session of the
\* engine.
Session_SetSessionTools ==
    /\ storeWrites < MaxStoreWrites
    /\ storeWrites' = storeWrites + 1
    /\ \E id \in StoreIds :
         /\ sessionTools' = sessionTools \cup {id}
         /\ interfered' = (interfered \/ Interferes(id))
    /\ UNCHANGED sessionLogLevels
    /\ UNCHANGED <<policy, canFlush, postVars, configVars, getVars, envVars,
                   forwarderVars, pingerVars, writeChan, counterVars,
                   deleteVars>>

\* Calls of nextRequestID by the pingers of listeners within one run of
\* DeleteSpec.
MaxRequestIDs == 2

\* Lines 522-526: nextRequestID(sessionID), called by the pinger of some
\* listener of the session: LoadOrStore, then Add(1).
Listener_NextRequestID ==
    /\ Len(counters) < MaxRequestIDs
    /\ \E id \in StoreIds \ {""} :
         IF sessionRequestIDs[id] = 0
           THEN /\ counters' = Append(counters, 1)
                /\ sessionRequestIDs' =
                     [sessionRequestIDs EXCEPT ![id] = Len(counters) + 1]
                /\ interfered' = (interfered \/ Interferes(id))
           ELSE /\ counters' =
                     [counters EXCEPT ![sessionRequestIDs[id]] = @ + 1]
                /\ counters[sessionRequestIDs[id]] < MaxRequestIDs
                /\ UNCHANGED <<sessionRequestIDs, interfered>>
    /\ UNCHANGED purged
    /\ UNCHANGED <<policy, canFlush, postVars, configVars, getVars, envVars,
                   forwarderVars, pingerVars, writeChan, storeVars,
                   deleteVars>>

\* --------------------------------------- specifications of GET and DELETE

\* Ticks of the heartbeat ticker within one run of ListenSpec, of
\* BackpressureSpec (where the pinger fills writeChan) and of SessionSpec.
MaxTicks == 3
MaxTicksFull == 17
MaxTicksSession == 2

InitListen ==
    /\ policy \in Policies
    /\ canFlush \in BOOLEAN
    /\ PostStart
    /\ ListenStart
    /\ listenHeartbeatInterval \in HeartbeatIntervals
    /\ maxTicks = MaxTicks
    /\ maxListenNotifs = MaxListenNotifs
    /\ ServerStart

NextListen ==
    \/ HandleGet_Register
    \/ HandleGet_Headers
    \/ HandleGet_Flusher
    \/ HandleGet_Receive
    \/ HandleGet_Write
    \/ HandleGet_Flush
    \/ HandleGet_CtxDone
    \/ HandleGet_CloseDone
    \/ HandleGet_Unregister
    \/ Listen_CtxCancel
    \/ Listen_SendNotification
    \/ Forwarder_Receive
    \/ Forwarder_Send
    \/ Forwarder_Done
    \/ Pinger_Tick
    \/ Pinger_Add
    \/ Pinger_Send
    \/ Pinger_Done

\* One GET request served by handleGet: the main loop, the forwarder, the
\* pinger, the engine sending notifications and the client disconnecting.
ListenSpec == InitListen /\ [][NextListen]_vars

\* A GET with a flushing writer and a positive heartbeat interval, long
\* enough for the pinger to fill writeChan.
InitBackpressure ==
    /\ policy = "insecure"
    /\ canFlush = TRUE
    /\ PostStart
    /\ ListenStart
    /\ listenHeartbeatInterval = 1
    /\ maxTicks = MaxTicksFull
    /\ maxListenNotifs = MaxListenNotifs
    /\ ServerStart

BackpressureSpec == InitBackpressure /\ [][NextListen]_vars

\* The goroutines of handleGet are scheduled: weak fairness of every step of
\* the main loop, the forwarder and the pinger.  The ticker, the engine and
\* the client are not obliged to do anything.
ListenFairness ==
    /\ WF_vars(HandleGet_Receive)
    /\ WF_vars(HandleGet_Write)
    /\ WF_vars(HandleGet_Flush)
    /\ WF_vars(HandleGet_CtxDone)
    /\ WF_vars(HandleGet_CloseDone)
    /\ WF_vars(HandleGet_Unregister)
    /\ WF_vars(Forwarder_Receive)
    /\ WF_vars(Forwarder_Send)
    /\ WF_vars(Forwarder_Done)
    /\ WF_vars(Pinger_Add)
    /\ WF_vars(Pinger_Send)
    /\ WF_vars(Pinger_Done)

ListenLiveSpec == ListenSpec /\ ListenFairness

BackpressureLiveSpec == BackpressureSpec /\ ListenFairness

\* A GET listener with a heartbeat that receives no notifications, together
\* with DELETE requests.
InitSession ==
    /\ policy \in Policies
    /\ canFlush = TRUE
    /\ PostStart
    /\ ListenStart
    /\ listenHeartbeatInterval = 1
    /\ maxTicks = MaxTicksSession
    /\ maxListenNotifs = MaxListenNotifs
    /\ ServerStart

NextSession ==
    \/ HandleGet_Register
    \/ HandleGet_Headers
    \/ HandleGet_Flusher
    \/ HandleGet_Receive
    \/ HandleGet_Write
    \/ HandleGet_Flush
    \/ HandleGet_CtxDone
    \/ HandleGet_CloseDone
    \/ HandleGet_Unregister
    \/ Listen_CtxCancel
    \/ Forwarder_Done
    \/ Pinger_Tick
    \/ Pinger_Add
    \/ Pinger_Send
    \/ Pinger_Done
    \/ HandleDelete_Terminate
    \/ HandleDelete_Tools
    \/ HandleDelete_LogLevels
    \/ HandleDelete_RequestIDs
    \/ HandleDelete_WriteHeader

SessionSpec == InitSession /\ [][NextSession]_vars

\* DELETE requests on a server whose sessions write to the stores and whose
\* listeners draw request IDs.
InitDelete ==
    /\ policy \in Policies
    /\ canFlush = TRUE
    /\ PostStart
    /\ ListenStart
    /\ listenHeartbeatInterval = 1
    /\ maxTicks = MaxTicksSession
    /\ maxListenNotifs = MaxListenNotifs
    /\ ServerStart

NextDelete ==
    \/ HandleDelete_Terminate
    \/ HandleDelete_Tools
    \/ HandleDelete_LogLevels
    \/ HandleDelete_RequestIDs
    \/ HandleDelete_WriteHeader
    \/ Session_SetLogLevel
    \/ Session_SetSessionTools
    \/ Listener_NextRequestID

DeleteSpec == InitDelete /\ [][NextDelete]_vars

\* ------------------------------------------------------------------ claims

Body == w.body

\* The payloads of the body, without their framing.
BodyData == [i \in 1..Len(Body) |-> [msg |-> Body[i].msg, n |-> Body[i].n]]

\* The engine's final response has been written to the body.
FinalWritten == \E i \in 1..Len(Body) : Body[i].msg = "response"

\* The goroutines that are inside their sequence of calls on w: the reader
\* between its done check and its unlock (lines 294-313), the main handler
\* inside WriteHeader(202) (line 327) or between its ctx.Err() check and its
\* unlock (lines 339-362).
Touching ==
    (IF rpc \in {"r_header", "r_write", "r_flush"} THEN {"reader"} ELSE {})
      \cup (IF mpc \in {"m_in202", "m_final"} THEN {"main"} ELSE {})

\* C1: the notification frames of the body are in the order the handler
\* enqueued them, and the engine's final response, once written, is the last
\* frame of the body in every later state: no notification frame follows it.
C1_ResponseLastInOrder ==
    /\ \A i, j \in 1..Len(Body) :
         (i < j /\ Body[i].msg = "notification" /\ Body[j].msg = "notification")
           => Body[i].n < Body[j].n
    /\ \A i \in 1..Len(Body) : Body[i].msg = "response" => i = Len(Body)

\* C1 witness: the reader received the second notification, the main handler
\* wrote the final response first, and the reader dropped the notification.
C1_Witness ==
    /\ mpc = "m_done"
    /\ response = "response"
    /\ ~sawCancel
    /\ enqueued = 2
    /\ nt = Notification(2)
    /\ rpc = "r_exit"
    /\ BodyData = <<Notification(1), Response>>

\* C2: when the handler has enqueued N notifications and the engine has then
\* returned a response (no cancellation, no write error), the body is the N
\* notifications followed by the response.
C2_AllNotificationsThenResponse ==
    (mpc = "m_done" /\ response = "response" /\ ~sawCancel /\ ~writeFailed)
      => BodyData = [i \in 1..(enqueued + 1) |->
                       IF i <= enqueued THEN Notification(i) ELSE Response]

\* C3: when the upgrade flag is set or the event-stream headers have been
\* sent, the final response is an SSE frame on a text/event-stream response,
\* never a bare JSON body.
C3_FinalIsSSEWhenUpgraded ==
    (FinalWritten /\ (upgradeToSSE \/ w.sent.ct = "text/event-stream"))
      => /\ Body[Len(Body)].kind = "sse"
         /\ w.sent.ct = "text/event-stream"

C5_WriteHeaderAtMostOnce == w.nWriteHeader <= 1

\* C6: at most one goroutine is touching the response writer at any moment.
C6_NoOverlappingWrites == Cardinality(Touching) <= 1

\* C7: once the handler has returned after the engine call, done is closed
\* and the reader is not inside a write to the response.
C7_DoneClosedBeforeReturn ==
    (mpc = "m_done" /\ engineCalls > 0)
      => (done /\ rpc \notin {"r_header", "r_write", "r_flush"})

\* C8: when the engine returned nil, the response is 202 with an empty body.
C8_NilGives202EmptyBody ==
    (mpc = "m_done" /\ response = "nil")
      => (w.status = StatusAccepted /\ Body = <<>>)

\* The header values that are not the prefix followed by a UUID.
MalformedHeaderIds ==
    { "", U1, idPrefix \o "zz", idPrefix,
      idPrefix \o "123e4567ze89b-42d3-a456-426614174000" }

\* The state of a request rejected at session acquisition.
RejectedWith(code, text) ==
    /\ mpc = "m_done"
    /\ w.status = code
    /\ w.nWriteHeader = 1
    /\ Body = <<TextFrame(text)>>
    /\ engineCalls = 0
    /\ ~sessionCreated
    /\ rpc = "r_none"

\* C9: a non-initialize POST whose Validate returns an error is answered 400
\* "Invalid session ID", one whose Validate returns terminated is answered 404
\* "Session terminated"; neither reaches HandleMessage nor creates a session
\* or a reader. Under the insecure-stateful policy an absent header, a missing
\* prefix and a non-UUID suffix are such errors.
C9_InvalidSessionRejected ==
    /\ (validated.called /\ validated.err)
         => RejectedWith(StatusBadRequest, "Invalid session ID")
    /\ (validated.called /\ ~validated.err /\ validated.terminated)
         => RejectedWith(StatusNotFound, "Session terminated")
    /\ (validated.called /\ policy = "insecure" /\ headerID \in MalformedHeaderIds)
         => RejectedWith(StatusBadRequest, "Invalid session ID")

C9_Witness ==
    /\ policy = "insecure"
    /\ ~isInitializeRequest
    /\ validated.called
    /\ validated.err
    /\ headerID = idPrefix \o "zz"
    /\ RejectedWith(StatusBadRequest, "Invalid session ID")

\* C10: the response to an initialize POST carries the generated session ID
\* in Mcp-Session-Id when that ID is non-empty, whatever the framing, and no
\* such header when it is empty.
C10_SessionHeaderEchoed ==
    (mpc = "m_done" /\ isInitializeRequest /\ FinalWritten)
      => w.sent.sid = sessionID

\* The request was rejected by the input checks of lines 217-238: the
\* handler returned without consulting the session policy or the engine.
RejectedAtInput == mpc = "m_done" /\ ~validated.called /\ engineCalls = 0

\* C11: a POST with a bad media type, an unreadable body or invalid JSON is
\* answered 400 with a JSON-RPC parse error (code -32700); the policy is not
\* consulted and the engine is not called.
C11_MalformedGetsParseError ==
    RejectedAtInput
      => /\ w.status = StatusBadRequest
         /\ w.sent.ct = "application/json"
         /\ Body = <<JSONFrame([msg |-> "error", n |-> PARSE_ERROR])>>
         /\ ~sessionCreated
         /\ rpc = "r_none"

\* C12: once the context has been cancelled mid-handler (HandleMessage
\* running, the reader waiting in its select), no frame is written to the
\* response any more.
C12_NoFrameAfterCancel == [][cancelQuiet => w'.body = w.body]_vars

ListenBody == listenW.body
EventStreamSent == listenW.sent.ct = "text/event-stream"

\* C14, as stated: a refused registration is answered with 400, without
\* event-stream headers and without UnregisterSession; after a successful one
\* the handler exits with exactly one UnregisterSession call, for its own
\* session ID, and UnregisterSession is never called unless done is closed.
C14_UnregisterOnceAfterDoneClosed ==
    /\ registration = "refused"
         => /\ listenW.status = StatusBadRequest
            /\ ~EventStreamSent
            /\ listenW.hdr.ct # "text/event-stream"
            /\ unregistered = <<>>
    /\ Len(unregistered) <= 1
    /\ (gpc = "g_exit" /\ registration # "refused")
         => unregistered = <<listenSessionID>>
    /\ unregistered # <<>> => listenDone = "closed"

\* C14, amended: as above, but UnregisterSession follows the closing of done
\* on the paths where done was made; a writer that cannot flush makes the
\* handler return before done exists, and UnregisterSession still runs once.
C14_UnregisterOnceAfterDoneIfMade ==
    /\ registration = "refused"
         => /\ listenW.status = StatusBadRequest
            /\ ~EventStreamSent
            /\ listenW.hdr.ct # "text/event-stream"
            /\ unregistered = <<>>
    /\ Len(unregistered) <= 1
    /\ (gpc = "g_exit" /\ registration # "refused")
         => unregistered = <<listenSessionID>>
    /\ unregistered # <<>>
         => listenDone = IF canFlush THEN "closed" ELSE "none"

\* A listener that wrote a frame, then failed or saw its context done, has
\* exited.
C14_Witness ==
    /\ gpc = "g_exit"
    /\ registration = "unregistered"
    /\ unregistered = <<listenSessionID>>
    /\ listenDone = "closed"
    /\ Len(ListenBody) > 0

\* C15: a GET whose writer cannot flush is answered with status 500 and the
\* body "Streaming unsupported", not with 200 and event-stream headers, and
\* neither the forwarder nor the pinger is started.
C15_NoFlusherGets500 ==
    (~canFlush /\ gpc \in {"g_unregister", "g_exit"} /\ registration # "refused")
      => /\ listenW.status = StatusInternalServerError
         /\ ~EventStreamSent
         /\ ListenBody = <<TextFrame("Streaming unsupported")>>
         /\ fpc = "f_none"
         /\ ppc = "p_none"

IsPing(f) == f.msg = "ping"

\* The ids of the ping requests written to the GET stream, in order.
PingIds ==
    LET pings == SelectSeq(ListenBody, IsPing)
    IN  [i \in 1..Len(pings) |-> pings[i].n]

\* C16: the ids of the pings written to one GET stream are strictly
\* increasing and, the listener being the first of its session, they are
\* 1, 2, 3, ..., whatever DELETE requests are served meanwhile.
C16_PingIdsStrictlyIncrease ==
    /\ \A i \in 1..Len(PingIds) : \A j \in 1..Len(PingIds) :
         i < j => PingIds[i] < PingIds[j]
    /\ \A i \in 1..Len(PingIds) : PingIds[i] = i

\* The client has stopped reading: its context is done, or a write to it
\* failed and the handler is leaving.
ClientGone == listenCtxDone \/ gpc \in {"g_closeDone", "g_unregister", "g_exit"}

\* C17: with an interval <= 0 no pinger runs and no ping is ever written;
\* with a positive interval, the k-th tick leads to a k-th ping frame on the
\* stream unless the client stops reading.
C17_TickLeadsToPing ==
    /\ [](listenHeartbeatInterval <= 0 => (PingIds = <<>> /\ ppc = "p_none"))
    /\ \A k \in 1..MaxTicks :
         (listenHeartbeatInterval > 0 /\ ticks >= k)
           ~> (Len(PingIds) >= k \/ ClientGone)

\* Every tick of the run was followed by its ping frame, the client still
\* reading.
C17_Witness ==
    /\ listenHeartbeatInterval > 0
    /\ ticks = MaxTicks
    /\ Len(PingIds) = ticks
    /\ ~ClientGone

HandlerExited == gpc = "g_exit"
GoroutinesGone == fpc \in {"f_none", "f_exit"} /\ ppc \in {"p_none", "p_exit"}

\* C18, as stated (its clause on what the goroutines do after the exit):
\* once handleGet has returned, nothing is written to the response and
\* nothing is enqueued onto writeChan.
C18_NoWriteNoEnqueueAfterExit ==
    [][HandlerExited => (listenW' = listenW /\ writeChan' = writeChan)]_vars

\* C18, amended: once handleGet has returned, the forwarder and the pinger
\* both terminate, wherever they were, and the response is never written
\* again; they may still enqueue onto writeChan until they notice done.
C18_GoroutinesTerminate ==
    /\ HandlerExited ~> GoroutinesGone
    /\ [][HandlerExited => listenW' = listenW]_vars

InWriteChan(m) == \E i \in 1..Len(writeChan) : writeChan[i] = m
InListenBody(m) == \E i \in 1..Len(ListenBody) : ListenBody[i] = SSEFrame(m)

\* The handler has returned and both goroutines have terminated while
\* blocked on a full writeChan: each still holds the item it could not send.
C18_Witness ==
    /\ HandlerExited
    /\ fpc = "f_exit"
    /\ ppc = "p_exit"
    /\ Len(writeChan) = WriteChanCap
    /\ message # NoData /\ ~InWriteChan(message) /\ ~InListenBody(message)
    /\ listenNt # NoData /\ ~InWriteChan(listenNt) /\ ~InListenBody(listenNt)

\* -------------------------------------------------- claims on handleDelete

Answered == dpc = "d_done"

\* No store holds an entry for the session ID.
NoEntryFor(id) ==
    /\ id \notin sessionTools
    /\ sessionLogLevels[id] = NoEntry
    /\ sessionRequestIDs[id] = 0
    /\ GetLogLevel(id) = LoggingLevelError

\* C19: under the stateless and the insecure policy every DELETE, a repeated
\* one included, is answered with 200, and when it returns no store holds
\* an entry for its session ID (no session having stored one meanwhile), so
\* that GetLogLevel gives the default "error".
C19_DeleteIsIdempotent ==
    (policy \in {"stateless", "insecure"} /\ Answered)
      => /\ deleteW.status = StatusOK
         /\ deleteW.body = <<>>
         /\ ~interfered => NoEntryFor(deleteID)

\* A second DELETE has returned; entries for other IDs are still there.
C19_Witness ==
    /\ policy \in {"stateless", "insecure"}
    /\ Answered
    /\ deletes = 2
    /\ ~interfered
    /\ deleteW.status = StatusOK
    /\ NoEntryFor(deleteID)
    /\ \E id \in StoreIds : sessionRequestIDs[id] # 0
    /\ \E id \in StoreIds : sessionLogLevels[id] # NoEntry

\* C20: a DELETE whose Terminate returns an error is answered with 500, one
\* whose Terminate returns not_allowed (and no error) with 405, and the
\* handler returns at once, leaving the three stores as they were.
C20_RefusedDeleteKeepsStores ==
    [][(deletes' # deletes
          /\ (terminateResult'.err \/ terminateResult'.notAllowed))
        => /\ dpc' = "d_done"
           /\ deleteW'.status = IF terminateResult'.err
                                  THEN StatusInternalServerError
                                  ELSE StatusMethodNotAllowed
           /\ sessionTools' = sessionTools
           /\ sessionLogLevels' = sessionLogLevels
           /\ sessionRequestIDs' = sessionRequestIDs
           /\ counters' = counters]_vars

\* A refused DELETE has been answered while the stores hold entries.
C20_Witness ==
    /\ Answered
    /\ terminateResult.notAllowed
    /\ ~terminateResult.err
    /\ deleteW.status = StatusMethodNotAllowed
    /\ deleteID \in sessionTools
    /\ sessionLogLevels[deleteID] # NoEntry
    /\ sessionRequestIDs[deleteID] # 0

\* ------------------------------------------------ claims on error handling

\* C21: a writeSSEEvent call of the GET main loop that returns an error
\* (nothing written) does not end the stream: the loop goes on to its next
\* select.
C21_WriteErrorKeepsStream ==
    [][(gpc = "g_write" /\ gpc' # "g_write" /\ listenW' = listenW)
         => gpc' \in {"g_flush", "g_loop"}]_vars

\* ------------------------------------------ NewStreamableHTTPServer options

\* Options passed to one NewStreamableHTTPServer call.
MaxOptions == 3

\* strings.Trim(s, "/")
RECURSIVE TrimLeft(_)
TrimLeft(s) ==
    IF Len(s) > 0 /\ CharAt(s, 1) = "/" THEN TrimLeft(SubSeq(s, 2, Len(s)))
    ELSE s

RECURSIVE TrimRight(_)
TrimRight(s) ==
    IF Len(s) > 0 /\ CharAt(s, Len(s)) = "/"
      THEN TrimRight(SubSeq(s, 1, Len(s) - 1))
      ELSE s

Trim(s) == TrimRight(TrimLeft(s))

\* Line 29: normalizedPath := "/" + strings.Trim(endpointPath, "/").
NormalizePath(path) == "/" \o Trim(path)

\* Arguments given to WithEndpointPath.
EndpointPaths ==
    {"", "/", "///", "mcp", "/mcp", "mcp/", "//mcp//", "/a/b/", "a//b"}

\* Managers given to WithSessionIdManager.
Managers == {"custom", "insecure"}

Option(name, b, str, n) == [name |-> name, b |-> b, str |-> str, n |-> n]

Options ==
    { Option("WithStateLess", b, "", 0) : b \in BOOLEAN }
      \cup { Option("WithSessionIdManager", FALSE, m, 0) : m \in Managers }
      \cup { Option("WithEndpointPath", FALSE, e, 0) : e \in EndpointPaths }
      \cup { Option("WithHeartbeatInterval", FALSE, "", i) : i \in HeartbeatIntervals }

OptionLists ==
    UNION { [1..n -> Options] : n \in 0..MaxOptions }

\* Lines 138-145: the defaults, before the options are applied.
InitOptions ==
    /\ policy = "insecure"
    /\ canFlush = TRUE
    /\ PostStart
    /\ ListenStart
    /\ listenHeartbeatInterval = 0
    /\ maxTicks = 0
    /\ maxListenNotifs = MaxListenNotifs
    /\ opts \in OptionLists
    /\ callers = [c \in Callers |-> NotCalled]
    /\ httpServer = NoServer
    /\ LifecycleStart
    /\ applied = <<>>
    /\ endpointPath = DefaultEndpointPath

\* Lines 148-150: opt(s) for the next option.
NewStreamableHTTPServer_Apply ==
    /\ opts # <<>>
    /\ LET opt == Head(opts)
       IN  /\ policy' =
                CASE opt.name = "WithStateLess" ->
                       IF opt.b THEN "stateless" ELSE policy
                  [] opt.name = "WithSessionIdManager" -> opt.str
                  [] OTHER -> policy
           /\ endpointPath' =
                IF opt.name = "WithEndpointPath" THEN NormalizePath(opt.str)
                ELSE endpointPath
           /\ listenHeartbeatInterval' =
                IF opt.name = "WithHeartbeatInterval" THEN opt.n
                ELSE listenHeartbeatInterval
           /\ applied' = Append(applied, opt)
    /\ opts' = Tail(opts)
    /\ UNCHANGED <<callers, lifecycleVars>>
    /\ UNCHANGED <<canFlush, postVars, maxTicks, maxListenNotifs, getVars,
                   envVars,
                   forwarderVars, pingerVars, writeChan, counterVars,
                   storeVars, deleteVars, interfered>>

NextOptions == NewStreamableHTTPServer_Apply

\* One NewStreamableHTTPServer call with up to MaxOptions options.
OptionsSpec == InitOptions /\ [][NextOptions]_vars

\* ------------------------------------------------------ claims on options

Constructed == opts = <<>>

Passed(name) == { i \in 1..Len(applied) : applied[i].name = name }

\* C22: when WithSessionIdManager(m) and WithStateLess(true) were both
\* passed, in either order, the constructed server uses m (the m of the last
\* WithSessionIdManager); and applying WithStateLess(false) changes nothing.
C22_ManagerOverridesStateLess ==
    /\ [](Constructed
            => \A i \in Passed("WithSessionIdManager") :
                 ((\A j \in Passed("WithSessionIdManager") : j <= i)
                    /\ \E j \in Passed("WithStateLess") : applied[j].b)
                   => policy = applied[i].str)
    /\ [][(opts # <<>> /\ Head(opts) = Option("WithStateLess", FALSE, "", 0))
            => policy' = policy]_vars

HasSuffix(s, t) == Len(s) >= Len(t) /\ SubSeq(s, Len(s) - Len(t) + 1, Len(s)) = t

\* C23: the stored endpoint path begins with exactly one slash, does not
\* end with a slash, and is a fixed point of the normalization.
C23_EndpointPathNormalized ==
    /\ HasPrefix(endpointPath, "/")
    /\ ~HasPrefix(endpointPath, "//")
    /\ ~HasSuffix(endpointPath, "/")
    /\ NormalizePath(endpointPath) = endpointPath

\* ------------------------------------------------------- nextRequestID

\* What LoadOrStore finds for the session ID: its counter, or 0 for none.
Loaded_Nothing(ids, id) == 0

\* Line 523: s.sessionRequestIDs.LoadOrStore(sessionID, new(atomic.Int64))
\* returns the stored counter if there is one.
Loaded(ids, id) == ids[id]

\* Line 523: a goroutine calls nextRequestID(id); LoadOrStore gives it the
\* counter of the session, a new one if there was none.
NextRequestID_LoadOrStore ==
    /\ \E c \in Callers, id \in StoreIds \ {""} :
         /\ callers[c].pc = "idle"
         /\ IF Loaded(sessionRequestIDs, id) = 0
              THEN /\ counters' = Append(counters, 0)
                   /\ sessionRequestIDs' =
                        [sessionRequestIDs EXCEPT ![id] = Len(counters) + 1]
                   /\ callers' = [callers EXCEPT
                                    ![c] = [pc |-> "loaded", id |-> id,
                                            counter |-> Len(counters) + 1,
                                            value |-> 0]]
                   /\ interfered' = (interfered \/ Interferes(id))
              ELSE /\ callers' = [callers EXCEPT
                                    ![c] = [pc |-> "loaded", id |-> id,
                                            counter |-> sessionRequestIDs[id],
                                            value |-> 0]]
                   /\ UNCHANGED <<counters, sessionRequestIDs, interfered>>
    /\ UNCHANGED purged
    /\ UNCHANGED <<opts, applied, endpointPath, listenHeartbeatInterval,
                   maxTicks, maxListenNotifs, lifecycleVars>>
    /\ UNCHANGED <<policy, canFlush, postVars, getVars, envVars,
                   forwarderVars, pingerVars, writeChan, storeVars,
                   deleteVars>>

\* Lines 524-525: counter.Add(1) and its result is returned.
NextRequestID_Add ==
    /\ \E c \in Callers :
         /\ callers[c].pc = "loaded"
         /\ counters' = [counters EXCEPT ![callers[c].counter] = @ + 1]
         /\ callers' = [callers EXCEPT
                          ![c].pc = "returned",
                          ![c].value = counters[callers[c].counter] + 1]
    /\ UNCHANGED <<sessionRequestIDs, purged, interfered>>
    /\ UNCHANGED <<opts, applied, endpointPath, listenHeartbeatInterval,
                   maxTicks, maxListenNotifs, lifecycleVars>>
    /\ UNCHANGED <<policy, canFlush, postVars, getVars, envVars,
                   forwarderVars, pingerVars, writeChan, storeVars,
                   deleteVars>>

NextCounter ==
    \/ NextRequestID_LoadOrStore
    \/ NextRequestID_Add
    \/ HandleDelete_Terminate
    \/ HandleDelete_Tools
    \/ HandleDelete_LogLevels
    \/ HandleDelete_RequestIDs
    \/ HandleDelete_WriteHeader

\* Concurrent nextRequestID calls (the pingers of listeners) and DELETE
\* requests on one server.
CounterSpec == InitDelete /\ [][NextCounter]_vars

\* ---------------------------------------------- claims on nextRequestID

Returned(id) == { c \in Callers : callers[c].pc = "returned" /\ callers[c].id = id }

\* C24: for a session ID no DELETE has purged, the values the nextRequestID
\* calls for that ID have returned are pairwise distinct and are exactly
\* 1..k after k calls, whatever calls and DELETEs other IDs see.
C24_CounterValuesDistinct ==
    \A id \in StoreIds :
      id \notin purged
        => /\ { callers[c].value : c \in Returned(id) }
                = 1..Cardinality(Returned(id))
           /\ \A c \in Returned(id) : \A d \in Returned(id) :
                c # d => callers[c].value # callers[d].value

\* Two calls for one ID have returned from one shared counter, a call for
\* another ID has returned too, and that other ID was purged by a DELETE.
C24_Witness ==
    \E id \in StoreIds : \E other \in StoreIds \ {id} :
      /\ id \notin purged
      /\ other \in purged
      /\ Cardinality(Returned(id)) = 2
      /\ Cardinality(Returned(other)) = 1
      /\ Len(counters) = 2

\* ------------------------------------------------ flow through handleGet

\* Notifications sent to the listener in the first kind of run of FlowSpec.
MaxFlowNotifs == 3

\* A GET with a flushing writer and a heartbeat, in two kinds of run: a few
\* ticks with several notifications, or one notification with ticks enough
\* to fill writeChan.
InitFlow ==
    /\ policy = "insecure"
    /\ canFlush = TRUE
    /\ PostStart
    /\ ListenStart
    /\ ServerStart
    /\ listenHeartbeatInterval = 1
    /\ \/ maxTicks = MaxTicksSession /\ maxListenNotifs = MaxFlowNotifs
       \/ maxTicks = MaxTicksFull /\ maxListenNotifs = MaxListenNotifs

FlowSpec == InitFlow /\ [][NextListen]_vars

\* ------------------------------------------------- claims on the GET flow

IsNotification(f) == f.msg = "notification"

Ids(seq) == [i \in 1..Len(seq) |-> seq[i].n]
UpTo(k) == [i \in 1..k |-> i]

\* The main loop of handleGet is running.
Running == gpc \in {"g_loop", "g_write", "g_flush"}

\* The notifications between the engine and the client, oldest first:
\* written, held by the main loop, in writeChan, held by the forwarder, in
\* the session channel.
NotificationsInFlight ==
    Ids(SelectSeq(ListenBody, IsNotification))
      \o (IF gpc = "g_write" /\ IsNotification(data) THEN <<data.n>> ELSE <<>>)
      \o Ids(SelectSeq(writeChan, IsNotification))
      \o (IF fpc = "f_send" THEN <<listenNt.n>> ELSE <<>>)
      \o Ids(listenChannel)

\* The pings between the pinger and the client, oldest first.
PingsInFlight ==
    PingIds
      \o (IF gpc = "g_write" /\ IsPing(data) THEN <<data.n>> ELSE <<>>)
      \o Ids(SelectSeq(writeChan, IsPing))
      \o (IF ppc = "p_send" THEN <<message.n>> ELSE <<>>)

PingsBuilt == IF ppc = "p_add" THEN ticks - 1 ELSE ticks

\* C25: the notifications written to a GET stream are in the order in which
\* they were enqueued, whatever pings lie between them; the session channel
\* holds at most 100 items and writeChan at most 16; and while the handler
\* runs no item is dropped or overwritten: every notification enqueued and
\* every ping built is written, queued or held by a blocked sender, in order.
C25_OrderedBoundedNoDrop ==
    /\ Ids(SelectSeq(ListenBody, IsNotification))
         = UpTo(Len(SelectSeq(ListenBody, IsNotification)))
    /\ Len(listenChannel) <= NotificationChannelCap
    /\ Len(writeChan) <= WriteChanCap
    /\ Running
         => /\ NotificationsInFlight = UpTo(listenEnqueued)
            /\ PingsInFlight = UpTo(PingsBuilt)

\* writeChan is full while the handler runs: the forwarder and the pinger
\* are both blocked, each holding the item it cannot send.
C25_Witness ==
    /\ Running
    /\ Len(writeChan) = WriteChanCap
    /\ fpc = "f_send"
    /\ ppc = "p_send"
    /\ ticks = MaxTicksFull

\* ------------------------------------------------------ Start and Shutdown

\* Listen addresses given to Start, and the Addr of an http.Server given
\* with WithStreamableHTTPServer.
Addrs == {":8080", ":9090"}
Server(addr) == [set |-> TRUE, addr |-> addr]

\* The server is constructed, with or without WithStreamableHTTPServer.
InitLifecycle ==
    /\ policy = "insecure"
    /\ canFlush = TRUE
    /\ PostStart
    /\ ListenStart
    /\ listenHeartbeatInterval = 0
    /\ maxTicks = 0
    /\ maxListenNotifs = 0
    /\ opts = <<>>
    /\ applied = <<>>
    /\ endpointPath = DefaultEndpointPath
    /\ callers = [c \in Callers |-> NotCalled]
    /\ httpServer \in {NoServer, Server("")} \cup { Server(a) : a \in Addrs }
    /\ LifecycleStart

LifecycleFrame ==
    UNCHANGED <<policy, canFlush, postVars, listenHeartbeatInterval, maxTicks,
                maxListenNotifs, opts, applied, endpointPath, callers,
                getVars, envVars, forwarderVars, pingerVars, writeChan,
                counterVars, storeVars, deleteVars, interfered>>

\* Line 173: s.mu.Lock() in Start(addr).
Start_Lock ==
    /\ smu = Unlocked
    /\ \E c \in StartCalls, a \in Addrs :
         /\ starts[c].pc = "idle"
         /\ starts' = [starts EXCEPT ![c] = [pc |-> "locked", addr |-> a]]
         /\ smu' = [kind |-> "w", by |-> c]
    /\ UNCHANGED <<httpServer, shutdownPc>>
    /\ LifecycleFrame

\* Lines 174-191: the server is made or its address checked; on a conflict
\* Start returns the error at line 185 with s.mu still locked, otherwise it
\* unlocks and calls ListenAndServe.
Start_Configure ==
    /\ \E c \in StartCalls :
         /\ starts[c].pc = "locked"
         /\ IF ~httpServer.set
              THEN /\ httpServer' = Server(starts[c].addr)
                   /\ smu' = Unlocked
                   /\ starts' = [starts EXCEPT ![c].pc = "serving"]
              ELSE IF httpServer.addr = ""
                THEN /\ httpServer' = Server(starts[c].addr)
                     /\ smu' = Unlocked
                     /\ starts' = [starts EXCEPT ![c].pc = "serving"]
                ELSE IF httpServer.addr # starts[c].addr
                  THEN /\ httpServer' = httpServer
                       /\ smu' = smu
                       /\ starts' = [starts EXCEPT ![c].pc = "failed"]
                  ELSE /\ httpServer' = httpServer
                       /\ smu' = Unlocked
                       /\ starts' = [starts EXCEPT ![c].pc = "serving"]
    /\ UNCHANGED shutdownPc
    /\ LifecycleFrame

\* Line 199: s.mu.RLock() in Shutdown.
Shutdown_RLock ==
    /\ shutdownPc = "idle"
    /\ smu = Unlocked
    /\ smu' = [kind |-> "r", by |-> 0]
    /\ shutdownPc' = "rlocked"
    /\ UNCHANGED <<httpServer, starts>>
    /\ LifecycleFrame

\* Lines 200-205: srv is read, s.mu.RUnlock(), srv.Shutdown(ctx) ends the
\* ListenAndServe calls.
Shutdown_RUnlock ==
    /\ shutdownPc = "rlocked"
    /\ smu' = Unlocked
    /\ shutdownPc' = "returned"
    /\ starts' = [c \in StartCalls |->
                    IF starts[c].pc = "serving" /\ httpServer.set
                      THEN [starts[c] EXCEPT !.pc = "closed"]
                      ELSE starts[c]]
    /\ UNCHANGED httpServer
    /\ LifecycleFrame

NextLifecycle ==
    \/ Start_Lock
    \/ Start_Configure
    \/ Shutdown_RLock
    \/ Shutdown_RUnlock

\* Start calls and one Shutdown call on one server.
LifecycleSpec == InitLifecycle /\ [][NextLifecycle]_vars

\* ------------------------------------------- claims on Start and Shutdown

StartReturned(c) == starts[c].pc \in {"failed", "closed"}

\* C26: a Start call that has returned, or has gone on to ListenAndServe,
\* does not hold the write lock on the HTTP-server field, so the lock is
\* free for a later Shutdown or Start.
C26_StartReleasesLock ==
    \A c \in StartCalls :
      (StartReturned(c) \/ starts[c].pc = "serving")
        => smu # [kind |-> "w", by |-> c]

\* ------------------------------------------------- per-session isolation

\* DELETE requests, store writes by sessions and concurrent nextRequestID
\* calls on one server with the default policy.
InitIsolation ==
    /\ InitDelete
    /\ policy = "insecure"

NextIsolation ==
    \/ NextCounter
    \/ Session_SetLogLevel
    \/ Session_SetSessionTools

IsolationSpec == InitIsolation /\ [][NextIsolation]_vars

\* What the three stores hold for one session ID: its log level, whether it
\* has tool overrides, and its request counter (-1 when it has none).
CounterOf(ids, cs, id) == IF ids[id] = 0 THEN -1 ELSE cs[ids[id]]
EntryOf(id) ==
    <<sessionLogLevels[id], id \in sessionTools,
      CounterOf(sessionRequestIDs, counters, id)>>
EntryOfNext(id) ==
    <<sessionLogLevels'[id], id \in sessionTools',
      CounterOf(sessionRequestIDs', counters', id)>>
ChangedIds == { id \in StoreIds : EntryOfNext(id) # EntryOf(id) }

\* C27: a step of SetLogLevel, SetSessionTools, nextRequestID or DELETE
\* changes the log level, tool overrides and request counter of at most one
\* session ID; for a DELETE step that ID is the one of the request, for a
\* nextRequestID step the one of the call.
C27_StoresIsolatedByKey ==
    [][/\ Cardinality(ChangedIds) <= 1
       /\ dpc' # dpc => ChangedIds \subseteq {deleteID'}
       /\ \A c \in Callers :
            callers'[c] # callers[c] => ChangedIds \subseteq {callers'[c].id}
      ]_vars

\* A DELETE for one ID has run to its answer while another ID keeps a log
\* level, tool overrides and a request counter that has counted.
C27_Witness ==
    /\ dpc = "d_done"
    /\ deleteW.status = StatusOK
    /\ deleteID \in purged
    /\ \E y \in StoreIds \ {deleteID} :
         /\ y \notin purged
         /\ sessionLogLevels[y] # NoEntry
         /\ y \in sessionTools
         /\ CounterOf(sessionRequestIDs, counters, y) >= 1

\* ------------------------------------------------- POST after a DELETE

\* DELETE requests and one POST on a server with the default policy.
InitTerminated ==
    /\ InitDelete
    /\ policy = "insecure"

NextTerminated ==
    \/ HandleDelete_Terminate
    \/ HandleDelete_Tools
    \/ HandleDelete_LogLevels
    \/ HandleDelete_RequestIDs
    \/ HandleDelete_WriteHeader
    \/ Next

TerminatedSpec == InitTerminated /\ [][NextTerminated]_vars

\* --------------------------------------------- claims on POST after DELETE

\* An ID of the shape Generate gives: the prefix and a UUID.
WellFormed(id) ==
    /\ HasPrefix(id, idPrefix)
    /\ UuidParseOk(SubSeq(id, Len(idPrefix) + 1, Len(id)))

\* The DELETE for id has removed the session's data and has answered 200.
Deleted200(id) ==
    /\ id \in purged
    /\ dpc = "d_done"
    /\ deleteID = id
    /\ deleteW.status = StatusOK

\* C28: with the insecure-stateful manager, a non-initialize POST that
\* carries a well-formed ID for which a DELETE has already answered 200 passes
\* validation: Validate reports neither an error nor a terminated session,
\* nothing is written (no 400, no 404), and the handler goes on to the
\* session and the engine call; a validated POST is never finished without
\* the engine having been called.
C28_DeletedIdStillValid ==
    /\ [][(mpc = "m_session" /\ mpc' # "m_session" /\ ~isInitializeRequest
             /\ WellFormed(headerID') /\ Deleted200(headerID'))
            => /\ validated'.called
               /\ ~validated'.err
               /\ ~validated'.terminated
               /\ w' = w
               /\ mpc' = "m_newSession"]_vars
    /\ [](validated.called /\ ~validated.err /\ ~validated.terminated
            => \/ mpc \in {"m_newSession", "m_handleMessage"}
               \/ engineCalls >= 1)

\* A POST carrying the ID a DELETE has answered 200 for has been validated
\* and handed to the engine.
C28_Witness ==
    /\ validated.called
    /\ WellFormed(headerID)
    /\ Deleted200(headerID)
    /\ engineCalls = 1
    /\ w.status \notin {StatusBadRequest, StatusNotFound}

====
